---- MODULE Spec2Model ----
(***************************************************************************)
(* Model of the Electrical Signature Analysis library                      *)
(* (src/src/signal_processing.py, src/src/ESA.py) and of the Data          *)
(* container with slice_data (src/src/picodata.py).                        *)
(*                                                                         *)
(* The library is a set of functions over numpy arrays.  The model keeps   *)
(* the arrays the caller owns in a heap, applies one library function per  *)
(* step and records what the call returned or raised.                      *)
(*                                                                         *)
(* Numbers.  Every value the code computes with +, -, *, / and the square  *)
(* roots and cosines of the frame transforms is kept exactly, as an        *)
(* element (a + b*sqrt2 + c*sqrt3 + e*sqrt6)/d of the field Q(sqrt2,sqrt3).*)
(* The values of the Fourier transform, the logarithm, the Hamming window  *)
(* and the remaining roots are kept as terms: the name of the numpy        *)
(* function and its arguments.                                             *)
(*                                                                         *)
(* The caller passes one-dimensional ndarrays, so the conversions          *)
(* `if not isinstance(signal, np.ndarray): signal = np.array(signal)` do   *)
(* not run; fs, gain and offset are Python integers and theta is a         *)
(* multiple of pi/6.                                                       *)
(***************************************************************************)
EXTENDS Integers, Sequences, FiniteSets, TLC

----------------------------------------------------------------------------
(* Bounds of the model *)

\* longest array the caller holds as a signal
MaxLen == 4
\* longest array the caller holds as a phase
MaxPhaseLen == 2
\* largest sampling frequency passed as fs (fs ranges over -1..MaxFs)
MaxFs == 2
\* theta is a multiple of pi/6: theta = t*pi/6 with t in 0..MaxTheta
MaxTheta == 2
\* largest gain and offset passed to apply_calib (both range over 0..MaxCalib)
MaxCalib == 1
\* most rows of a loaded file
MaxRows == 4
\* largest start_ms and end_ms passed to slice_data, in ms
MaxMs == 3

\* the samples the caller stores in its arrays
Samples == {-1, 1}
\* the sampling periods of the loaded files, in microseconds
PeriodsUs == {500, 1000, 4000}
\* the time stamp of the first row of a loaded file, in microseconds
FirstStampsUs == {0, -2000}

----------------------------------------------------------------------------
(* Exact numbers: <<"x", a, b, c, e, d>> is (a + b*sqrt2 + c*sqrt3 + e*sqrt6)/d, *)
(* d > 0 and the five integers without a common factor; d = 0 is nan.         *)

AbsI(n) == IF n < 0 THEN -n ELSE n

RECURSIVE GCD(_, _)
GCD(m, n) == IF n = 0 THEN AbsI(m) ELSE GCD(n, m % n)

X(a, b, c, e, d) ==
    IF d = 0 THEN <<"x", 0, 0, 0, 0, 0>>
    ELSE LET g == GCD(GCD(GCD(GCD(AbsI(a), AbsI(b)), AbsI(c)), AbsI(e)), AbsI(d))
             s == IF d < 0 THEN -1 ELSE 1
         IN  <<"x", (s * a) \div g, (s * b) \div g, (s * c) \div g, (s * e) \div g, (s * d) \div g>>

NaN == X(0, 0, 0, 0, 0)
Q(n, d) == X(n, 0, 0, 0, d)
Z(n) == Q(n, 1)

IsExact(v) == v[1] = "x"
IsNaN(v) == IsExact(v) /\ v[6] = 0
IsRational(v) == IsExact(v) /\ v[6] # 0 /\ v[3] = 0 /\ v[4] = 0 /\ v[5] = 0

\* an uninterpreted numpy function applied to its arguments
Term(fn, args) == <<"t", fn, args>>

XAdd(u, v) ==
    IF ~(IsExact(u) /\ IsExact(v)) THEN Term("add", <<u, v>>)
    ELSE IF IsNaN(u) \/ IsNaN(v) THEN NaN
    ELSE X(u[2] * v[6] + v[2] * u[6], u[3] * v[6] + v[3] * u[6],
           u[4] * v[6] + v[4] * u[6], u[5] * v[6] + v[5] * u[6], u[6] * v[6])

XNeg(u) ==
    IF ~IsExact(u) THEN Term("neg", <<u>>)
    ELSE X(-u[2], -u[3], -u[4], -u[5], u[6])

XSub(u, v) ==
    IF ~(IsExact(u) /\ IsExact(v)) THEN Term("sub", <<u, v>>)
    ELSE XAdd(u, XNeg(v))

XMul(u, v) ==
    IF ~(IsExact(u) /\ IsExact(v)) THEN Term("mul", <<u, v>>)
    ELSE IF IsNaN(u) \/ IsNaN(v) THEN NaN
    ELSE X(u[2] * v[2] + 2 * u[3] * v[3] + 3 * u[4] * v[4] + 6 * u[5] * v[5],
           u[2] * v[3] + u[3] * v[2] + 3 * (u[4] * v[5] + u[5] * v[4]),
           u[2] * v[4] + u[4] * v[2] + 2 * (u[3] * v[5] + u[5] * v[3]),
           u[2] * v[5] + u[5] * v[2] + u[3] * v[4] + u[4] * v[3],
           u[6] * v[6])

\* u / v for a rational v; numpy's float division by zero gives inf or nan
XDiv(u, v) ==
    IF ~(IsExact(u) /\ IsRational(v)) THEN Term("div", <<u, v>>)
    ELSE IF IsNaN(u) THEN NaN
    ELSE IF v[2] = 0 THEN Term("div", <<u, v>>)
    ELSE X(u[2] * v[6], u[3] * v[6], u[4] * v[6], u[5] * v[6], u[6] * v[2])

\* u < v for two rationals
QLess(u, v) == u[2] * v[6] < v[2] * u[6]

\* sqrt of a rational n/d >= 0: s*sqrt(r)/d with n*d = s*s*r and r in {1, 2, 3, 6}
XSqrt(v) ==
    IF IsNaN(v) THEN NaN
    ELSE IF ~IsRational(v) \/ v[2] < 0 THEN Term("sqrt", <<v>>)
    ELSE LET m == v[2] * v[6]
             fit == {p \in (0..m) \X {1, 2, 3, 6} : p[1] * p[1] * p[2] = m}
         IN  IF m = 0 THEN Z(0)
             ELSE IF fit = {} THEN Term("sqrt", <<v>>)
             ELSE LET p == CHOOSE p \in fit : TRUE
                  IN  CASE p[2] = 1 -> X(p[1], 0, 0, 0, v[6])
                        [] p[2] = 2 -> X(0, p[1], 0, 0, v[6])
                        [] p[2] = 3 -> X(0, 0, p[1], 0, v[6])
                        [] p[2] = 6 -> X(0, 0, 0, p[1], v[6])

\* 1 / v for a v with a single non-zero component
XRecip(v) ==
    IF ~IsExact(v) \/ IsNaN(v) THEN Term("recip", <<v>>)
    ELSE CASE v[2] # 0 /\ v[3] = 0 /\ v[4] = 0 /\ v[5] = 0 -> X(v[6], 0, 0, 0, v[2])
           [] v[2] = 0 /\ v[3] # 0 /\ v[4] = 0 /\ v[5] = 0 -> X(0, v[6], 0, 0, 2 * v[3])
           [] v[2] = 0 /\ v[3] = 0 /\ v[4] # 0 /\ v[5] = 0 -> X(0, 0, v[6], 0, 3 * v[4])
           [] v[2] = 0 /\ v[3] = 0 /\ v[4] = 0 /\ v[5] # 0 -> X(0, 0, 0, v[6], 6 * v[5])
           [] OTHER -> Term("recip", <<v>>)

\* cos(k*pi/6) and sin(k*pi/6) for an integer k
Cos12(k) ==
    LET r == k % 12
    IN  CASE r = 0 -> Z(1)
          [] r \in {1, 11} -> X(0, 0, 1, 0, 2)
          [] r \in {2, 10} -> Q(1, 2)
          [] r \in {3, 9} -> Z(0)
          [] r \in {4, 8} -> Q(-1, 2)
          [] r \in {5, 7} -> X(0, 0, -1, 0, 2)
          [] r = 6 -> Z(-1)

Sin12(k) == Cos12(k - 3)

\* cos(2*pi*n/m): exact when the angle is a multiple of pi/6
CosTurn(n, m) ==
    IF (12 * n) % m = 0 THEN Cos12((12 * n) \div m)
    ELSE Term("cos", <<n, m>>)

----------------------------------------------------------------------------
(* numpy arrays.  base names the caller's object the array is stored in     *)
(* ("" for an array the library allocated), shape is the numpy shape, data  *)
(* the elements in row-major order.  exc # "" stands for the exception the  *)
(* expression that should have produced the array raised instead.           *)

Arr(data) == [base |-> "", shape |-> <<Len(data)>>, data |-> data, exc |-> ""]
Arr0(v) == [base |-> "", shape |-> <<>>, data |-> <<v>>, exc |-> ""]
Raise(e) == [base |-> "", shape |-> <<>>, data |-> <<>>, exc |-> e]
Failed(a) == a.exc # ""
size(a) == Len(a.data)

RECURSIVE SumSeq(_)
SumSeq(s) == IF s = <<>> THEN Z(0) ELSE XAdd(s[1], SumSeq(Tail(s)))

AllExact(s) == \A i \in DOMAIN s : IsExact(s[i])

\* np.mean(a): nan for an empty array
np_mean(a) ==
    IF size(a) = 0 THEN NaN
    ELSE IF AllExact(a.data) THEN XDiv(SumSeq(a.data), Z(size(a)))
    ELSE Term("mean", a.data)

\* a numpy ufunc of one array: a new array of the same shape
Map(F(_), a) ==
    IF Failed(a) THEN a
    ELSE [base |-> "", shape |-> a.shape, data |-> [i \in DOMAIN a.data |-> F(a.data[i])], exc |-> ""]

\* a numpy ufunc of two one-dimensional arrays, with numpy's broadcasting:
\* equal lengths, or one of the two of length 1; anything else is a ValueError
Zip(F(_, _), a, b) ==
    IF Failed(a) THEN a
    ELSE IF Failed(b) THEN b
    ELSE IF size(a) = size(b) THEN Arr([i \in 1..size(a) |-> F(a.data[i], b.data[i])])
    ELSE IF size(a) = 1 THEN Arr([i \in 1..size(b) |-> F(a.data[1], b.data[i])])
    ELSE IF size(b) = 1 THEN Arr([i \in 1..size(a) |-> F(a.data[i], b.data[1])])
    ELSE Raise("ValueError")

np_abs(a) ==
    Map(LAMBDA v : IF IsRational(v) THEN Q(AbsI(v[2]), v[6]) ELSE Term("abs", <<v>>), a)

np_power2(a) ==
    Map(LAMBDA v : IF IsExact(v) THEN XMul(v, v) ELSE Term("power", <<v, 2>>), a)

np_log(a) == Map(LAMBDA v : Term("log", <<v>>), a)

np_log10(a) == Map(LAMBDA v : Term("log10", <<v>>), a)

\* np.fft.rfft(a): the n//2 + 1 one-sided bins of the n points; no point is a ValueError
np_fft_rfft(a) ==
    IF Failed(a) THEN a
    ELSE IF size(a) = 0 THEN Raise("ValueError")
    ELSE Arr([k \in 1..(size(a) \div 2 + 1) |-> Term("rfft", <<k - 1, a.data>>)])

\* np.fft.irfft(a): 2*(m-1) points from m bins; no point is a ValueError
np_fft_irfft(a) ==
    IF Failed(a) THEN a
    ELSE IF 2 * (size(a) - 1) < 1 THEN Raise("ValueError")
    ELSE Arr([k \in 1..(2 * (size(a) - 1)) |-> Term("irfft", <<k - 1, a.data>>)])

\* np.fft.rfftfreq(n, d): val = 1.0/(n*d); arange(0, n//2 + 1) * val
np_fft_rfftfreq(n, d) ==
    LET val == XDiv(Z(1), XMul(Z(n), d))
    IN  Arr([k \in 1..(n \div 2 + 1) |-> XMul(Z(k - 1), val)])

\* np.hamming(M): 0.54 - 0.46*cos(2*pi*n/(M-1)), n = 0..M-1; [] for M < 1, [1.0] for M = 1
np_hamming(M) ==
    IF M < 1 THEN Arr(<<>>)
    ELSE IF M = 1 THEN Arr(<<Z(1)>>)
    ELSE Arr([i \in 1..M |-> XSub(Q(27, 50), XMul(Q(23, 50), CosTurn(i - 1, M - 1)))])

\* max(fft), Python's builtin over the elements
py_max(s) ==
    IF \A i \in DOMAIN s : IsRational(s[i])
    THEN CHOOSE v \in {s[i] : i \in DOMAIN s} : \A i \in DOMAIN s : ~QLess(v, s[i])
    ELSE Term("max", s)

----------------------------------------------------------------------------
(* What a call does: h is the heap after the call, exc the exception it    *)
(* raised ("" when it returned), none tells a return of None, ret the      *)
(* arrays (or zero-dimensional scalars) it returned.                       *)

Ret(h, arrays) == [h |-> h, exc |-> "", none |-> FALSE, ret |-> arrays]
RetNone(h) == [h |-> h, exc |-> "", none |-> TRUE, ret |-> <<>>]
Exc(h, e) == [h |-> h, exc |-> e, none |-> FALSE, ret |-> <<>>]

----------------------------------------------------------------------------
(* src/src/signal_processing.py *)

\* signal -= np.mean(signal): the in-place form of the statement below, which
\* writes the caller's array
sub_mean_inplace(h, signal) ==
    LET m == np_mean(signal)
        d == [i \in DOMAIN signal.data |-> XSub(signal.data[i], m)]
    IN  [h |-> IF signal.base = "" THEN h ELSE [h EXCEPT ![signal.base].data = d],
         arr |-> [signal EXCEPT !.data = d]]

\* signal = signal - np.mean(signal): binds the name to a new array
sub_mean(h, signal) ==
    LET m == np_mean(signal)
    IN  [h |-> h, arr |-> Map(LAMBDA v : XSub(v, m), signal)]

\* power_fft with the sample spacing d = fs in place of d = 1/fs
power_fft_spacing_fs(h, signal, fs) ==
    LET c == sub_mean(h, signal)
        fft == np_power2(np_abs(np_fft_rfft(c.arr)))
    IN  IF Failed(fft) THEN Exc(c.h, fft.exc)
        ELSE IF fs = 0 THEN Exc(c.h, "ZeroDivisionError")
        ELSE Ret(c.h, <<np_fft_rfftfreq(size(c.arr), Z(fs)), fft>>)

power_fft(h, signal, fs) ==
    LET c == sub_mean(h, signal)
        fft == np_power2(np_abs(np_fft_rfft(c.arr)))
    IN  IF Failed(fft) THEN Exc(c.h, fft.exc)
        ELSE IF fs = 0 THEN Exc(c.h, "ZeroDivisionError")
        ELSE Ret(c.h, <<np_fft_rfftfreq(size(c.arr), Q(1, fs)), fft>>)

complex_fft(h, signal, fs) ==
    LET c == sub_mean(h, signal)
        fft == np_fft_rfft(c.arr)
    IN  IF Failed(fft) THEN Exc(c.h, fft.exc)
        ELSE IF fs = 0 THEN Exc(c.h, "ZeroDivisionError")
        ELSE Ret(c.h, <<np_fft_rfftfreq(size(c.arr), Q(1, fs)), fft>>)

decibel(h, fft, normalize) ==
    IF normalize /\ size(fft) = 0 THEN Exc(h, "ValueError")
    ELSE LET f1 == IF normalize
                   THEN Map(LAMBDA v : XDiv(v, py_max(fft.data)), fft)
                   ELSE fft
         IN  Ret(h, <<Map(LAMBDA v : XMul(Z(20), v), np_log10(f1))>>)

rms(h, signal) ==
    LET s0 == Map(LAMBDA v : v, signal)
        s1 == Map(LAMBDA v : XSub(v, np_mean(s0)), s0)
    IN  Ret(h, <<Arr0(XSqrt(np_mean(np_power2(s1))))>>)

power_cepstrum(h, signal, fs) ==
    LET ceps == np_power2(np_abs(np_fft_irfft(np_log(np_abs(np_power2(np_fft_rfft(signal)))))))
    IN  IF Failed(ceps) THEN Exc(h, ceps.exc)
        ELSE RetNone(h)

\* complex_cepstrum with the quefrency axis computed with d = 1/df in place of d = df
complex_cepstrum_inverse_df(h, signal, fs) ==
    LET frame_size == size(signal)
        windowed_signal == Zip(XMul, np_hamming(frame_size), signal)
        Xf == np_fft_rfft(windowed_signal)
        log_X == np_log(np_abs(Xf))
        cepstrum == np_fft_rfft(log_X)
    IN  IF Failed(cepstrum) THEN Exc(h, cepstrum.exc)
        ELSE IF fs = 0 THEN Exc(h, "ZeroDivisionError")
        ELSE LET dt == Q(1, fs)
                 freq_vector == np_fft_rfftfreq(frame_size, dt)
             IN  IF size(freq_vector) < 2 THEN Exc(h, "IndexError")
                 ELSE LET df == XSub(freq_vector.data[2], freq_vector.data[1])
                          quefrency_vector == np_fft_rfftfreq(size(log_X), XRecip(df))
                      IN  Ret(h, <<quefrency_vector, cepstrum>>)

complex_cepstrum(h, signal, fs) ==
    LET frame_size == size(signal)
        windowed_signal == Zip(XMul, np_hamming(frame_size), signal)
        Xf == np_fft_rfft(windowed_signal)
        log_X == np_log(np_abs(Xf))
        cepstrum == np_fft_rfft(log_X)
    IN  IF Failed(cepstrum) THEN Exc(h, cepstrum.exc)
        ELSE IF fs = 0 THEN Exc(h, "ZeroDivisionError")
        ELSE LET dt == Q(1, fs)
                 freq_vector == np_fft_rfftfreq(frame_size, dt)
             IN  IF size(freq_vector) < 2 THEN Exc(h, "IndexError")
                 ELSE LET df == XSub(freq_vector.data[2], freq_vector.data[1])
                          quefrency_vector == np_fft_rfftfreq(size(log_X), df)
                      IN  Ret(h, <<quefrency_vector, cepstrum>>)

----------------------------------------------------------------------------
(* src/src/ESA.py *)

\* np.squeeze((a,)): the one-element tuple becomes an array of shape (1,) + a.shape,
\* and squeeze drops every axis of length 1
np_squeeze_tuple(a) ==
    IF Failed(a) THEN a
    ELSE [a EXCEPT !.shape = SelectSeq(<<1>> \o a.shape, LAMBDA n : n # 1)]

\* s * a for a scalar s
Scale(s, a) == Map(LAMBDA v : XMul(s, v), a)

\* np.abs of the complex array re + 1j*im
np_abs_complex(re, im) ==
    Zip(LAMBDA d, q : IF IsExact(d) /\ IsExact(q) THEN XSqrt(XAdd(XMul(d, d), XMul(q, q)))
                      ELSE Term("abs", <<d, q>>), re, im)

np_sqrt(a) == Map(XSqrt, a)

\* np.corrcoef(x, y)[0, 1] for two one-dimensional arrays of equal length, as an absolute value
AbsPearson(x, y) ==
    LET mx == np_mean(x)
        my == np_mean(y)
        dx == [i \in DOMAIN x.data |-> XSub(x.data[i], mx)]
        dy == [i \in DOMAIN y.data |-> XSub(y.data[i], my)]
        c == SumSeq([i \in DOMAIN dx |-> XMul(dx[i], dy[i])])
        vx == SumSeq([i \in DOMAIN dx |-> XMul(dx[i], dx[i])])
        vy == SumSeq([i \in DOMAIN dy |-> XMul(dy[i], dy[i])])
    IN  IF size(x) < 2 \/ ~AllExact(x.data) \/ ~AllExact(y.data) THEN NaN
        ELSE IF XMul(vx, vy) = Z(0) THEN NaN
        ELSE XSqrt(XDiv(XMul(c, c), XMul(vx, vy)))

correlation(h, x, y) ==
    IF size(x) # size(y) THEN Exc(h, "ValueError")
    ELSE Ret(h, <<Arr0(AbsPearson(x, y))>>)

dq(h, i_a, i_b, i_c) ==
    LET v1 == XSqrt(Q(2, 3))
        v2 == XRecip(XSqrt(Z(6)))
        v3 == v2
        v4 == XRecip(XSqrt(Z(2)))
        v5 == v4
        i_d == Zip(XSub, Zip(XSub, Scale(v1, i_a), Scale(v2, i_b)), Scale(v3, i_c))
        i_q == Zip(XSub, Scale(v4, i_b), Scale(v5, i_c))
    IN  IF Failed(i_d) THEN Exc(h, i_d.exc)
        ELSE IF Failed(i_q) THEN Exc(h, i_q.exc)
        ELSE Ret(h, <<np_squeeze_tuple(i_d), np_squeeze_tuple(i_q)>>)

epva(h, i_d, i_q, fs) ==
    LET result == np_sqrt(np_abs_complex(i_d, i_q))
    IN  IF Failed(result) THEN Exc(h, result.exc)
        ELSE power_fft(h, result, fs)

csa(h, signal, fs) == power_fft(h, signal, fs)

vsa(h, signal, fs) == power_fft(h, signal, fs)

ipsa(h, v_ll, i_l, fs, norm) ==
    LET m == np_mean(i_l)
        p_l == Zip(XMul, v_ll, Map(LAMBDA v : XSub(v, m), i_l))
    IN  IF Failed(p_l) THEN Exc(h, p_l.exc)
        ELSE LET r == power_fft(h, p_l, fs)
             IN  IF r.exc # "" \/ ~norm THEN r
                 ELSE LET db == decibel(r.h, r.ret[2], TRUE)
                      IN  IF db.exc # "" THEN db
                          ELSE Ret(db.h, <<r.ret[1], db.ret[1]>>)

mcsa(h, signal, fs) == csa(h, signal, fs)

\* the matrix D scaled by 2/3, the amplitude-invariant scaling, in place of sqrt(2/3)
ParkMatrix_two_thirds(t) ==
    LET k == Q(2, 3)
    IN  << <<XMul(k, Cos12(t)), XMul(k, Cos12(t - 4)), XMul(k, Cos12(t - 8))>>,
           <<XMul(k, XNeg(Sin12(t))), XMul(k, XNeg(Sin12(t - 4))), XMul(k, XNeg(Sin12(t - 8)))>>,
           <<XMul(k, Q(1, 2)), XMul(k, Q(1, 2)), XMul(k, Q(1, 2))>> >>

\* the matrix D of the Park transform at theta = t*pi/6
ParkMatrix(t) ==
    LET k == XSqrt(Q(2, 3))
    IN  << <<XMul(k, Cos12(t)), XMul(k, Cos12(t - 4)), XMul(k, Cos12(t - 8))>>,
           <<XMul(k, XNeg(Sin12(t))), XMul(k, XNeg(Sin12(t - 4))), XMul(k, XNeg(Sin12(t - 8)))>>,
           <<XMul(k, Q(1, 2)), XMul(k, Q(1, 2)), XMul(k, Q(1, 2))>> >>

\* row r of the matrix product D * current, current a 3 x n array given by its rows
MatRow(D, current, r) ==
    [j \in 1..Len(current[1]) |->
        XAdd(XAdd(XMul(D[r][1], current[1][j]), XMul(D[r][2], current[2][j])),
             XMul(D[r][3], current[3][j]))]

\* the first matrix assigned to D (ESA.py:137-139) is overwritten before it is used
dq0(h, i_a, i_b, i_c, t) ==
    LET ca == Map(LAMBDA v : XSub(v, np_mean(i_a)), i_a)
        cb == Map(LAMBDA v : XSub(v, np_mean(i_b)), i_b)
        cc == Map(LAMBDA v : XSub(v, np_mean(i_c)), i_c)
    IN  \* np.array of rows of different lengths is a ValueError
        IF size(ca) # size(cb) \/ size(cb) # size(cc) THEN Exc(h, "ValueError")
        ELSE LET current == <<ca.data, cb.data, cc.data>>
                 D == ParkMatrix(t)
             IN  Ret(h, <<Arr(MatRow(D, current, 1)), Arr(MatRow(D, current, 2)),
                          Arr(MatRow(D, current, 3))>>)

apply_calib(h, signal, gain, offset) ==
    Ret(h, <<Map(LAMBDA v : XAdd(XMul(Z(gain), v), Z(offset)), signal)>>)

----------------------------------------------------------------------------
(* src/src/picodata.py.  A Data object is [loaded, size, frequency_hz, time]; *)
(* time is the column of time stamps of the rows of _data, in microseconds,  *)
(* which tells the rows apart.                                               *)

\* Python's round(n/d) for d > 0: to the nearest integer, a tie to the even one
Round(n, d) ==
    LET q == n \div d
        r == n % d
    IN  IF 2 * r < d THEN q
        ELSE IF 2 * r > d THEN q + 1
        ELSE IF q % 2 = 0 THEN q ELSE q + 1

\* a Python optional argument: <<>> is None, <<v>> is the value v
None == <<>>
Some(v) == <<v>>

\* the rows a loader reads from a file of S rows sampled every step microseconds
picoscope_data_loader(S, first, step) == [i \in 1..S |-> first + (i - 1) * step]

\* round(1 / (round(sum(diff)/len(diff), 9) / 1000)); the time stamps are whole
\* microseconds, so the inner rounding to 9 decimals of a millisecond changes nothing
_calculate_sampling_frequency(time) ==
    Round(1000000 * (Len(time) - 1), time[Len(time)] - time[1])

NoData == [loaded |-> FALSE, size |-> 0, frequency_hz |-> 0, time |-> <<>>]

\* Data.load on a file of at least two rows (with fewer, len(diff) = 0 and load raises);
\* slice_data copies size and frequency_hz along with the object, so they stay those of
\* the loaded file
load(time, remove_offset) ==
    [loaded |-> TRUE,
     size |-> Len(time),
     frequency_hz |-> _calculate_sampling_frequency(time),
     time |-> IF remove_offset THEN [i \in DOMAIN time |-> time[i] - time[1]] ELSE time]

\* s[start:stop] of Python, for a sequence s
PySlice(s, start, stop) ==
    LET L == Len(s)
        Clamp(i) == IF i < 0 THEN (IF i + L < 0 THEN 0 ELSE i + L) ELSE IF i > L THEN L ELSE i
        lo == Clamp(start)
        hi == Clamp(stop)
    IN  IF lo >= hi THEN <<>> ELSE SubSeq(s, lo + 1, hi)

slice_data(data, start_ms, end_ms) ==
    LET start1 == IF start_ms = None THEN 0 ELSE start_ms[1]
        end1 == IF end_ms = None THEN data.size ELSE end_ms[1]
        start_sample_count == Round(start1 * data.frequency_hz, 1000)
        end_sample_count == Round(end1 * data.frequency_hz, 1000)
    IN  [data EXCEPT !.time = PySlice(data.time, start_sample_count, end_sample_count)]

----------------------------------------------------------------------------
(* The caller.  heap holds the arrays the caller owns and passes to the     *)
(* library: either one signal "s" or three phases "a", "b", "c"; passed is  *)
(* their contents when the caller filled them.  The                         *)
(* library is synchronous: op is "idle" when no call is under way, and      *)
(* after a call op, args and res are the function called, its scalar        *)
(* arguments and its outcome, until the caller has taken the outcome.       *)
(* loaded is the Data object files are loaded into, subset the Data object  *)
(* the last call of slice_data returned, a copy that a later load leaves as *)
(* it is, and sargs the arguments of that call: the Data object passed as   *)
(* it was at the call, which object it was, start_ms and end_ms.            *)

VARIABLES heap, passed, op, args, res, loaded, subset, sargs

vars == <<heap, passed, op, args, res, loaded, subset, sargs>>
esaVars == <<heap, passed, op, args, res>>
dataVars == <<loaded, subset, sargs>>

Refs == {"a", "b", "c"}
SignalRefs == {"s"}
FsSet == -1..MaxFs
Thetas == 0..MaxTheta
Calibs == 0..MaxCalib

SeqsUpTo(S, n) == UNION {[1..k -> S] : k \in 0..n}

\* the ndarray the caller stores the samples x in, under the name ref
CallerArray(ref, x) ==
    [base |-> ref, shape |-> <<Len(x)>>, data |-> [i \in DOMAIN x |-> Z(x[i])], exc |-> ""]

Args(sig, fs, t, norm, gain, offset) ==
    [sig |-> sig, fs |-> fs, t |-> t, norm |-> norm, gain |-> gain, offset |-> offset]

NoArgs == Args("", 0, 0, FALSE, 0, 0)
NoResult == [exc |-> "", none |-> FALSE, ret |-> <<>>]
NoSlice == [src |-> "loaded", data |-> NoData, start |-> None, end |-> None]

InitESA ==
    /\ \/ heap \in {[r \in SignalRefs |-> CallerArray(r, x)] : x \in SeqsUpTo(Samples, MaxLen)}
       \/ heap \in {[r \in Refs |-> CallerArray(r, IF r = "a" THEN x ELSE IF r = "b" THEN y ELSE z)] :
                        x \in SeqsUpTo(Samples, MaxPhaseLen),
                        y \in SeqsUpTo(Samples, MaxPhaseLen),
                        z \in SeqsUpTo(Samples, MaxPhaseLen)}
    /\ passed = heap
    /\ op = "idle"
    /\ args = NoArgs
    /\ res = NoResult

InitData ==
    /\ loaded = NoData
    /\ subset = NoData
    /\ sargs = NoSlice

\* the call named name with scalar arguments a had the outcome r
Call(name, a, r) ==
    /\ op = "idle"
    /\ heap' = r.h
    /\ op' = name
    /\ args' = a
    /\ res' = [exc |-> r.exc, none |-> r.none, ret |-> r.ret]
    /\ UNCHANGED <<passed, loaded, subset, sargs>>

Call_power_fft ==
    \E x \in SignalRefs \cap DOMAIN heap, fs \in FsSet :
        Call("power_fft", Args(x, fs, 0, FALSE, 0, 0), power_fft(heap, heap[x], fs))

Call_complex_fft ==
    \E x \in SignalRefs \cap DOMAIN heap, fs \in FsSet :
        Call("complex_fft", Args(x, fs, 0, FALSE, 0, 0), complex_fft(heap, heap[x], fs))

Call_decibel ==
    \E x \in SignalRefs \cap DOMAIN heap, n \in BOOLEAN :
        Call("decibel", Args(x, 0, 0, n, 0, 0), decibel(heap, heap[x], n))

Call_rms ==
    \E x \in SignalRefs \cap DOMAIN heap :
        Call("rms", Args(x, 0, 0, FALSE, 0, 0), rms(heap, heap[x]))

Call_power_cepstrum ==
    \E x \in SignalRefs \cap DOMAIN heap, fs \in FsSet :
        Call("power_cepstrum", Args(x, fs, 0, FALSE, 0, 0), power_cepstrum(heap, heap[x], fs))

Call_complex_cepstrum ==
    \E x \in SignalRefs \cap DOMAIN heap, fs \in FsSet :
        Call("complex_cepstrum", Args(x, fs, 0, FALSE, 0, 0), complex_cepstrum(heap, heap[x], fs))

Call_correlation ==
    /\ Refs \subseteq DOMAIN heap
    /\ Call("correlation", NoArgs, correlation(heap, heap["a"], heap["b"]))

Call_dq ==
    /\ Refs \subseteq DOMAIN heap
    /\ Call("dq", NoArgs, dq(heap, heap["a"], heap["b"], heap["c"]))

Call_epva ==
    /\ Refs \subseteq DOMAIN heap
    /\ \E fs \in FsSet :
        Call("epva", Args("", fs, 0, FALSE, 0, 0), epva(heap, heap["a"], heap["b"], fs))

Call_csa ==
    \E x \in SignalRefs \cap DOMAIN heap, fs \in FsSet :
        Call("csa", Args(x, fs, 0, FALSE, 0, 0), csa(heap, heap[x], fs))

Call_vsa ==
    \E x \in SignalRefs \cap DOMAIN heap, fs \in FsSet :
        Call("vsa", Args(x, fs, 0, FALSE, 0, 0), vsa(heap, heap[x], fs))

Call_ipsa ==
    /\ Refs \subseteq DOMAIN heap
    /\ \E fs \in FsSet, n \in BOOLEAN :
        Call("ipsa", Args("", fs, 0, n, 0, 0), ipsa(heap, heap["a"], heap["b"], fs, n))

Call_mcsa ==
    \E x \in SignalRefs \cap DOMAIN heap, fs \in FsSet :
        Call("mcsa", Args(x, fs, 0, FALSE, 0, 0), mcsa(heap, heap[x], fs))

Call_dq0 ==
    /\ Refs \subseteq DOMAIN heap
    /\ \E t \in Thetas :
        Call("dq0", Args("", 0, t, FALSE, 0, 0), dq0(heap, heap["a"], heap["b"], heap["c"], t))

Call_apply_calib ==
    \E x \in SignalRefs \cap DOMAIN heap, g \in Calibs, o \in Calibs :
        Call("apply_calib", Args(x, 0, 0, FALSE, g, o), apply_calib(heap, heap[x], g, o))

\* the caller takes the outcome of the call and is ready for the next call
Return ==
    /\ op # "idle"
    /\ op' = "idle"
    /\ args' = NoArgs
    /\ res' = NoResult
    /\ UNCHANGED <<heap, passed, loaded, subset, sargs>>

Next ==
    \/ Call_power_fft
    \/ Call_complex_fft
    \/ Call_decibel
    \/ Call_rms
    \/ Call_power_cepstrum
    \/ Call_complex_cepstrum
    \/ Call_correlation
    \/ Call_dq
    \/ Call_epva
    \/ Call_csa
    \/ Call_vsa
    \/ Call_ipsa
    \/ Call_mcsa
    \/ Call_dq0
    \/ Call_apply_calib
    \/ Return

Init == InitESA /\ InitData

Spec == Init /\ [][Next]_vars

(* Loading a file and slicing *)

Load ==
    \E S \in 2..MaxRows, first \in FirstStampsUs, step \in PeriodsUs, remove_offset \in BOOLEAN :
        /\ loaded' = load(picoscope_data_loader(S, first, step), remove_offset)
        /\ UNCHANGED <<subset, sargs, heap, passed, op, args, res>>

MsArgs == {None} \cup {Some(m) : m \in 0..MaxMs}

Slice ==
    \E src \in {"loaded", "subset"}, start_ms \in MsArgs, end_ms \in MsArgs :
        LET data == IF src = "loaded" THEN loaded ELSE subset
        IN  /\ data.loaded
            /\ subset' = slice_data(data, start_ms, end_ms)
            /\ sargs' = [src |-> src, data |-> data, start |-> start_ms, end |-> end_ms]
            /\ UNCHANGED <<loaded, heap, passed, op, args, res>>

NextData == Load \/ Slice

InitFile ==
    /\ InitData
    /\ heap = [r \in SignalRefs |-> CallerArray(r, <<>>)]
    /\ passed = heap
    /\ op = "idle"
    /\ args = NoArgs
    /\ res = NoResult

SpecData == InitFile /\ [][NextData]_vars

----------------------------------------------------------------------------
(* Properties *)

Returned == op # "idle" /\ res.exc = ""
Raised == op # "idle" /\ res.exc # ""

\* the arrays the last call was given, as the caller filled them
LenOf(r) == Len(passed[r].data)
SigLen == IF args.sig \in DOMAIN passed THEN LenOf(args.sig) ELSE 0

\* a is a one-dimensional array of n elements
IsSeqOf(a, n) == a.shape = <<n>> /\ Len(a.data) = n

\* the call returned a pair of one-dimensional arrays of the same length
ReturnedPair ==
    /\ Returned
    /\ ~res.none
    /\ Len(res.ret) = 2
    /\ Len(res.ret[1].shape) = 1
    /\ res.ret[1].shape = res.ret[2].shape

NonNegativeAscending(d) ==
    /\ \A i \in DOMAIN d : IsRational(d[i]) /\ d[i][2] >= 0
    /\ \A i, j \in DOMAIN d : i < j => QLess(d[i], d[j])

ZeroMean(r) == LenOf(r) > 0 /\ np_mean(passed[r]) = Z(0)

\* C1: for a signal of N >= 2 samples and fs > 0, power_fft returns a frequency axis and a
\* power sequence of floor(N/2)+1 elements each, with frequency[k] = k*fs/N
C1_PowerFftBins ==
    (op = "power_fft" /\ SigLen >= 2 /\ args.fs > 0) =>
        /\ ReturnedPair
        /\ IsSeqOf(res.ret[1], SigLen \div 2 + 1)
        /\ IsSeqOf(res.ret[2], SigLen \div 2 + 1)
        /\ \A k \in 0..(SigLen \div 2) : res.ret[1].data[k + 1] = Q(k * args.fs, SigLen)

\* power_fft has returned the two bins [0, fs/2] of a 2-sample signal, fs = 1
C1_Witness ==
    /\ op = "power_fft" /\ SigLen = 2 /\ args.fs = 1
    /\ Returned
    /\ res.ret[1].data = <<Z(0), Q(1, 2)>>

\* C2: wherever complex_cepstrum returns, power_cepstrum returns a pair of two
\* equal-length sequences, never None
C2_PowerCepstrumReturnsPair ==
    (op = "power_cepstrum"
        /\ complex_cepstrum(passed, passed[args.sig], args.fs).exc = "") => ReturnedPair

\* the coefficients a frame transform applies to (i_a, i_b, i_c) for i_d and for i_q:
\* what it returns for a unit swing [1, -1] on one phase, the other two at rest
Swing(r, p) == CallerArray(r, IF r = p THEN <<1, -1>> ELSE <<0, 0>>)
Response(out(_)) == [p \in Refs |-> <<out(p).ret[1].data[1], out(p).ret[2].data[1]>>]
DqCoefficients ==
    Response(LAMBDA p : dq(passed, Swing("a", p), Swing("b", p), Swing("c", p)))
Dq0Coefficients(t) ==
    Response(LAMBDA p : dq0(passed, Swing("a", p), Swing("b", p), Swing("c", p), t))

\* C3 as claimed: dq and dq0 are different normalizations; after dq0 at theta = 0 on
\* equal-length zero-mean phases, the coefficients dq0 applied for i_d and i_q are not the
\* coefficients dq applies, or these phases already tell the two transforms apart
C3_CoefficientSetsDiffer ==
    (op = "dq0" /\ args.t = 0 /\ Returned /\ LenOf("a") >= 2
        /\ LenOf("a") = LenOf("b") /\ LenOf("b") = LenOf("c")
        /\ ZeroMean("a") /\ ZeroMean("b") /\ ZeroMean("c")) =>
        LET r == dq(passed, passed["a"], passed["b"], passed["c"])
        IN  \/ Dq0Coefficients(args.t) # DqCoefficients
            \/ r.exc # ""
            \/ res.ret[1] # r.ret[1]
            \/ res.ret[2] # r.ret[2]

\* C3 amended: for phases of equal length N >= 2 whose per-phase mean is zero, the i_d and
\* i_q that dq0 returns at theta = 0 are the i_d and i_q that dq returns
C3_SameAtThetaZero ==
    (op = "dq0" /\ args.t = 0 /\ LenOf("a") >= 2
        /\ LenOf("a") = LenOf("b") /\ LenOf("b") = LenOf("c")
        /\ ZeroMean("a") /\ ZeroMean("b") /\ ZeroMean("c")) =>
        LET r == dq(passed, passed["a"], passed["b"], passed["c"])
        IN  /\ Returned /\ r.exc = ""
            /\ res.ret[1] = r.ret[1]
            /\ res.ret[2] = r.ret[2]
            /\ Dq0Coefficients(args.t) = DqCoefficients

\* dq0 at theta = 0 has returned a non-zero i_d and i_q for zero-mean phases
C3_Witness ==
    /\ op = "dq0" /\ args.t = 0 /\ Returned
    /\ passed["a"].data = <<Z(1), Z(-1)>>
    /\ passed["b"].data = <<Z(-1), Z(1)>>
    /\ passed["c"].data = <<Z(1), Z(-1)>>
    /\ res.ret[1].data[1] # Z(0)
    /\ res.ret[2].data[1] # Z(0)

\* C4: for three phases of N >= 1 samples each, dq returns two sequences of N samples and
\* dq0 returns three sequences of N samples
C4_FrameOutputLength ==
    LET N == LenOf("a")
    IN  (op \in {"dq", "dq0"} /\ N >= 1 /\ LenOf("b") = N /\ LenOf("c") = N) =>
            /\ Returned
            /\ Len(res.ret) = (IF op = "dq" THEN 2 ELSE 3)
            /\ \A i \in DOMAIN res.ret : IsSeqOf(res.ret[i], N)

\* C5: power_fft and complex_fft on a signal of fewer than 2 samples, fs > 0, end in an
\* error and return no spectrum
C5_ShortSignalRaises ==
    (op \in {"power_fft", "complex_fft"} /\ SigLen < 2 /\ args.fs > 0) => Raised

\* the arrays the last call took in parallel
ParallelRefs ==
    IF op \in {"dq", "dq0"} THEN {"a", "b", "c"}
    ELSE IF op \in {"ipsa", "correlation"} THEN {"a", "b"}
    ELSE {}

\* C6: dq, dq0, ipsa and correlation on sequences of different lengths end in an error
C6_MismatchedLengthsRaise ==
    (\E r1, r2 \in ParallelRefs : LenOf(r1) # LenOf(r2)) => Raised

SpectralOps ==
    {"power_fft", "complex_fft", "complex_cepstrum", "csa", "vsa", "mcsa", "epva", "ipsa"}

\* C7: a spectral operation called with fs <= 0 ends in an error, so that every frequency
\* axis that is returned is non-negative and ascending
C7_BadSamplingRateRaises ==
    (op \in SpectralOps) =>
        /\ args.fs <= 0 => Raised
        /\ (Returned /\ op # "complex_cepstrum") => NonNegativeAscending(res.ret[1].data)

\* C8 as claimed: for N >= 2 and fs > 0, with M = floor(N/2)+1 and delta_f = fs/N,
\* complex_cepstrum returns quefrency[k] = k*delta_f/M, k = 0..floor(M/2),
\* of the length of the cepstrum
C8_QuefrencySpacingInverse ==
    (op = "complex_cepstrum" /\ SigLen >= 2 /\ args.fs > 0) =>
        LET M == SigLen \div 2 + 1
        IN  /\ ReturnedPair
            /\ IsSeqOf(res.ret[1], M \div 2 + 1)
            /\ \A k \in 0..(M \div 2) : res.ret[1].data[k + 1] = Q(k * args.fs, SigLen * M)

\* C8 amended: the quefrency axis is computed with sample spacing d = delta_f, that is
\* quefrency[k] = k/(M*delta_f) = k*N/(M*fs), k = 0..floor(M/2), of the length of the cepstrum
C8_QuefrencySpacing ==
    (op = "complex_cepstrum" /\ SigLen >= 2 /\ args.fs > 0) =>
        LET M == SigLen \div 2 + 1
        IN  /\ ReturnedPair
            /\ IsSeqOf(res.ret[1], M \div 2 + 1)
            /\ \A k \in 0..(M \div 2) : res.ret[1].data[k + 1] = Q(k * SigLen, M * args.fs)

\* complex_cepstrum has returned the quefrency axis [0, 3/2] of a 3-sample signal, fs = 1
C8_Witness ==
    /\ op = "complex_cepstrum" /\ SigLen = 3 /\ args.fs = 1
    /\ Returned
    /\ res.ret[1].data = <<Z(0), Q(3, 2)>>

\* C9: no call changes an array the caller passed in, and no returned array is stored in
\* one of the caller's arrays
C9_InputsUnchanged ==
    /\ heap = passed
    /\ \A i \in DOMAIN res.ret : res.ret[i].base = ""

\* power_fft has returned the spectrum of a signal whose mean it had to remove
C9_Witness ==
    /\ op = "power_fft" /\ Returned
    /\ passed[args.sig].data = <<Z(1), Z(1)>>
    /\ heap[args.sig].data = <<Z(1), Z(1)>>
    /\ res.ret[2].data[1] = Term("power", <<Term("abs", <<Term("rfft", <<0, <<Z(0), Z(0)>> >>)>>), 2>>)

\* C10: slice_data of a loaded Data object with end_ms = None returns a subset whose last
\* row is the last row of the object passed, and all its rows when start_ms = None as well
C10_SliceToEnd ==
    (subset.loaded /\ sargs.src = "loaded" /\ sargs.end = None) =>
        LET data == sargs.data
            first == IF sargs.start = None THEN 0
                     ELSE Round(sargs.start[1] * data.frequency_hz, 1000)
        IN  /\ sargs.start = None => subset.time = data.time
            /\ first < data.size =>
                    /\ subset.time # <<>>
                    /\ subset.time[Len(subset.time)] = data.time[Len(data.time)]

====
